---- MODULE Spec2Model ----
(***************************************************************************)
(* Image intake and multi-provider analysis pipeline of the garage sale    *)
(* organizer: the upload handler POST /api/items/:id/images of the server, *)
(* its routes that delete listings and images, the listing store           *)
(* (Database), the provider client (AIService) with its cost computation,  *)
(* and the AI_COST log that GET /api/ai/usage sums up.                     *)
(*                                                                         *)
(* Every await of the upload handler is an interleaving point: one action  *)
(* is the completion of the awaited operation followed by the handler's    *)
(* synchronous code up to its next await.                                  *)
(***************************************************************************)
EXTENDS Integers, Sequences, FiniteSets, TLC

\* ------------------------------------------------------------------ bounds
\* Upload requests that may be issued (they may overlap in time).
MaxUploads == 2
\* PUT /api/items/:id requests that may be issued.
MaxEdits == 1
\* Cost entries that direct calls of the service may append.
MaxCalls == 2
\* File selections in one session of the create-item page, and files per selection.
MaxSelections == 2
MaxFiles == 2
\* POST /api/items requests one session of the page may send.
MaxCreates == 3

Reqs == 1..MaxUploads

\* ------------------------------------------------------------ value domains
\* SQL NULL / a JavaScript undefined bound as a statement parameter.
Null == "NULL"
\* A JavaScript undefined string-valued property of a result object.
Undef == ""

ItemIds == {"i1"}
Fields == {"title", "description", "price", "category"}

\* A row of table items; exists = FALSE stands for "no such row".
NoItem ==
  [exists |-> FALSE, title |-> Null, description |-> Null, price |-> Null, category |-> Null]

\* One token of a provider's reply text: k is the kind ("prose", "{", "}" or the
\* key of a JSON member), v the member's value, n the token's length in characters.
Tok(k, v, n) == [k |-> k, v |-> v, n |-> n]
Prose == Tok("prose", "Here is the listing", 19)
LB == Tok("{", "{", 1)
RB == Tok("}", "}", 1)
AnalysisKeys == {"title", "description", "category", "estimated_price", "condition", "tags"}
NumericPrices == {"0", "5", "12", "40"}

\* Reply texts a provider may return.
ReplyFull ==
  << Prose, LB, Tok("title", "Oak Desk", 19), Tok("description", "Solid oak desk", 31),
     Tok("category", "Furniture", 23), Tok("estimated_price", "40", 21),
     Tok("condition", "Good", 19), Tok("tags", "desk,oak", 20), RB, Prose >>
ReplyPartial == << LB, Tok("title", "Vintage Lamp", 23), Tok("estimated_price", "12", 21), RB >>
ReplyNoTitle == << LB, Tok("estimated_price", "12", 21), RB >>
ReplyBadPrice ==
  << LB, Tok("title", "Vintage Lamp", 23), Tok("estimated_price", "twelve", 27), RB >>
ReplyProse == << Prose >>
ReplyUnclosed == << Prose, LB, Tok("title", "Vintage Lamp", 23) >>
ReplyTwoBlocks == << LB, Tok("title", "Vintage Lamp", 23), RB, Prose, LB, RB >>
Replies ==
  { ReplyFull, ReplyPartial, ReplyNoTitle, ReplyBadPrice, ReplyProse, ReplyUnclosed,
    ReplyTwoBlocks }

\* What a provider call may do: throw (network, auth, timeout after the retries)
\* or return a reply text; an OpenAI response may or may not carry usage.
NoUsage == {}
ReportedUsage ==
  { [k |-> "prompt_tokens", n |-> 100], [k |-> "completion_tokens", n |-> 30],
    [k |-> "total_tokens", n |-> 130] }
Responses ==
  { [throws |-> TRUE, content |-> << >>, usage |-> NoUsage],
    [throws |-> FALSE, content |-> ReplyProse, usage |-> NoUsage] }
    \cup { [throws |-> FALSE, content |-> c, usage |-> ReportedUsage] : c \in Replies }

\* ------------------------------------------------------------------ state
VARIABLES
  items,    \* table items: item id -> row
  images,   \* table images: set of rows
  files,    \* uploads/images
  thumbs,   \* uploads/thumbnails
  ai,       \* the AIService singleton
  req,      \* the upload requests, by request number
  edits,    \* PUT /api/items/:id requests issued so far
  ledger,   \* the AI_COST entries of logs/ai-<date>.log, in file order
  del,      \* the DELETE /api/items/:id request
  cost,     \* a call of calculateCost: its arguments and what it returned
  settings, \* table settings: key -> value
  res,      \* the last response of a settings route
  svcCall,  \* the last call of analyzeImage / generateDescription by a caller
  page,     \* one session of the create-item page
  timer     \* timers of the upload requests: provider call and socket

vars ==
  << items, images, files, thumbs, ai, req, edits, ledger, del, cost,
     settings, res, svcCall, page, timer >>

NoCall == [present |-> FALSE, provider |-> Undef, model |-> Undef]

\* The value analyzeImage resolves to (success, analysis | error, error_type,
\* raw_response, timing, usage); an absent property is Undef, {} or hasRaw = FALSE.
NoResult ==
  [success |-> FALSE, analysis |-> {}, error |-> Undef, error_type |-> Undef,
   hasRaw |-> FALSE, raw_response |-> << >>, timing |-> {}, usage |-> NoUsage]

\* Column ai_analysis of an images row: the object the handler serialises, or
\* present = FALSE for SQL NULL. JSON.stringify drops the undefined properties.
NoAnalysis ==
  [present |-> FALSE, error |-> Undef, error_type |-> Undef, analysis |-> {},
   hasRaw |-> FALSE, raw_response |-> << >>, timing |-> {}, usage |-> NoUsage]

IdleReq ==
  [pc |-> "idle", id |-> "i1", skipAI |-> FALSE, item |-> NoItem, call |-> NoCall,
   aiAnalysis |-> NoAnalysis, updates |-> {}, status |-> 0,
   \* history of the request, read by the properties only
   pre |-> NoItem, calls |-> 0, fault |-> FALSE, aiCheck |-> "none"]

\* multer's generated file name (uuid): unique per request.
FileOf(r) == r

\* --------------------------------------------------------------- AIService
NullClient == "null"
DefaultOpenAIModel == "gpt-4o"
DefaultGeminiModel == "gemini-2.5-pro"

NewAIService ==
  [openai |-> NullClient, gemini |-> NullClient, provider |-> "openai",
   model |-> DefaultOpenAIModel]

\* Mutant: the provider is switched even when its key is missing.
Initialize_ProviderFirst(svc, config) ==
  IF config.provider = "openai" /\ config.openAIKey # Undef
  THEN [svc EXCEPT !.openai = config.openAIKey,
                   !.provider = "openai",
                   !.model = IF config.model # Undef THEN config.model
                             ELSE DefaultOpenAIModel]
  ELSE IF config.provider = "gemini" /\ config.geminiKey # Undef
  THEN [svc EXCEPT !.gemini = config.geminiKey,
                   !.provider = "gemini",
                   !.model = IF config.model # Undef THEN config.model
                             ELSE DefaultGeminiModel]
  ELSE IF config.provider \in {"openai", "gemini"}
  THEN [svc EXCEPT !.provider = config.provider]
  ELSE svc

Initialize(svc, config) ==
  IF config.provider = "openai" /\ config.openAIKey # Undef
  THEN [svc EXCEPT !.openai = config.openAIKey,
                   !.provider = "openai",
                   !.model = IF config.model # Undef THEN config.model
                             ELSE DefaultOpenAIModel]
  ELSE IF config.provider = "gemini" /\ config.geminiKey # Undef
  THEN [svc EXCEPT !.gemini = config.geminiKey,
                   !.provider = "gemini",
                   !.model = IF config.model # Undef THEN config.model
                             ELSE DefaultGeminiModel]
  ELSE svc

SetProviderOf(svc, provider, apiKey, model) ==
  IF provider = "openai" /\ apiKey # Undef
  THEN Initialize(svc, [provider |-> "openai", openAIKey |-> apiKey, geminiKey |-> Undef,
                        model |-> model])
  ELSE IF provider = "gemini" /\ apiKey # Undef
  THEN Initialize(svc, [provider |-> "gemini", openAIKey |-> Undef, geminiKey |-> apiKey,
                        model |-> model])
  ELSE svc

IsInitialized(svc) ==
  IF svc.provider = "openai" THEN svc.openai # NullClient
  ELSE IF svc.provider = "gemini" THEN svc.gemini # NullClient
  ELSE FALSE

\* The request analyzeImage sends: _analyzeImageOpenAI builds requestPayload with
\* this.model, _analyzeImageGemini calls getGenerativeModel with this.model, both
\* before their first await.
AnalyzeImage(svc) ==
  [present |-> TRUE, provider |-> svc.provider, model |-> svc.model]

\* content.match(/\{[\s\S]*\}/): from the first "{" to the last "}" after it.
Opens(content) == { i \in 1..Len(content) : content[i].k = "{" }
Closes(content) == { j \in 1..Len(content) : content[j].k = "}" }
Min(S) == CHOOSE x \in S : \A y \in S : x <= y
Max(S) == CHOOSE x \in S : \A y \in S : x >= y
HasJsonMatch(content) ==
  \E i \in Opens(content) : \E j \in Closes(content) : i < j
JsonMatch(content) ==
  SubSeq(content, Min(Opens(content)), Max(Closes(content)))

\* JSON.parse of the matched span: an object when the braces enclose members only.
JsonParses(span) ==
  /\ Len(span) >= 2
  /\ span[1].k = "{"
  /\ span[Len(span)].k = "}"
  /\ \A i \in 2..(Len(span) - 1) : span[i].k \in AnalysisKeys
JsonParse(span) == { span[i] : i \in 2..(Len(span) - 1) }

\* analysis.key: the member's value, undefined when the object has no such member.
HasKey(obj, key) == \E t \in obj : t.k = key
Get(obj, key) == IF HasKey(obj, key) THEN (CHOOSE t \in obj : t.k = key).v ELSE Null

TimingFull == {"total_ms", "api_call_ms"}
TimingTotal == {"total_ms"}
UsageOf(p, c) ==
  { [k |-> "prompt_tokens", n |-> p], [k |-> "completion_tokens", n |-> c],
    [k |-> "total_tokens", n |-> p + c] }
UsageN(u, key) == IF \E t \in u : t.k = key THEN (CHOOSE t \in u : t.k = key).n ELSE 0

\* Characters of the prompt _analyzeImageGemini sends, and of a reply text.
PromptLength == 1648
RECURSIVE TextLength(_)
TextLength(content) ==
  IF content = << >> THEN 0 ELSE Head(content).n + TextLength(Tail(content))
CeilDiv4(n) == (n + 3) \div 4

\* Mutant: the raw text is cut, as it is for the log line.
ParseFailure_Truncated(content, timing, usage) ==
  [NoResult EXCEPT !.error = "Could not parse AI response as JSON",
                   !.hasRaw = TRUE,
                   !.raw_response = SubSeq(content, 1, Len(content) - 1),
                   !.timing = timing, !.usage = usage]

ParseFailure(content, timing, usage) ==
  [NoResult EXCEPT !.error = "Could not parse AI response as JSON",
                   !.hasRaw = TRUE, !.raw_response = content,
                   !.timing = timing, !.usage = usage]

Parsed(content, timing, usage, failTiming, failUsage) ==
  IF HasJsonMatch(content) /\ JsonParses(JsonMatch(content))
  THEN [NoResult EXCEPT !.success = TRUE, !.analysis = JsonParse(JsonMatch(content)),
                        !.timing = timing, !.usage = usage]
  ELSE ParseFailure(content, failTiming, failUsage)

AnalyzeImageOpenAI(resp) ==
  IF resp.throws
  THEN [NoResult EXCEPT !.error = "provider error", !.error_type = "Error",
                        !.timing = TimingTotal]
  ELSE LET usage == UsageOf(UsageN(resp.usage, "prompt_tokens"),
                            UsageN(resp.usage, "completion_tokens"))
       IN Parsed(resp.content, TimingFull, usage, TimingFull, usage)

AnalyzeImageGemini(resp) ==
  IF resp.throws
  THEN [NoResult EXCEPT !.error = "provider error"]
  ELSE LET usage == UsageOf(CeilDiv4(PromptLength), CeilDiv4(TextLength(resp.content)))
       IN Parsed(resp.content, TimingFull, usage, {}, NoUsage)

\* Mutant: the reply is interpreted by the provider active when it arrives.
AnalyzeImageResult_Current(call, resp) ==
  IF ai.provider = "openai" THEN AnalyzeImageOpenAI(resp) ELSE AnalyzeImageGemini(resp)

\* The provider function that awaits the reply is the one analyzeImage entered.
AnalyzeImageResult(call, resp) ==
  IF call.provider = "openai" THEN AnalyzeImageOpenAI(resp) ELSE AnalyzeImageGemini(resp)

\* The value generateDescription resolves to.
NoDescription ==
  [success |-> FALSE, description |-> << >>, error |-> Undef, error_type |-> Undef,
   timing |-> {}, usage |-> NoUsage]

\* Characters of the prompt _generateDescriptionGemini builds for the title
\* "Oak Desk" and the category "Furniture" with no additional info.
DescriptionPromptLength == 302 + 8 + 9

\* description is the reply text trimmed; a reply text here has no outer blanks.
GenerateDescriptionOpenAI(resp) ==
  IF resp.throws
  THEN [NoDescription EXCEPT !.error = "provider error", !.error_type = "Error",
                             !.timing = TimingTotal]
  ELSE [NoDescription EXCEPT !.success = TRUE, !.description = resp.content,
                             !.timing = TimingFull,
                             !.usage = UsageOf(UsageN(resp.usage, "prompt_tokens"),
                                               UsageN(resp.usage, "completion_tokens"))]

GenerateDescriptionGemini(resp) ==
  IF resp.throws
  THEN [NoDescription EXCEPT !.error = "provider error"]
  ELSE [NoDescription EXCEPT !.success = TRUE, !.description = resp.content,
                             !.timing = TimingFull,
                             !.usage = UsageOf(CeilDiv4(DescriptionPromptLength),
                                               CeilDiv4(TextLength(resp.content)))]

\* calculateCost. Costs are in billionths of a dollar, so that the per-token rates
\* (0.005 / 1000 dollars is 5000 billionths) are whole numbers.
Rate(input, output) == [input |-> input, output |-> output]
Cost(inputCost, outputCost) ==
  [input_cost |-> inputCost, output_cost |-> outputCost,
   total_cost |-> inputCost + outputCost, currency |-> "USD"]

Pricing ==
  "gpt-4o" :> Rate(5000, 15000) @@ "gpt-4o-mini" :> Rate(150, 600)
  @@ "gpt-4" :> Rate(30000, 60000) @@ "gpt-3.5-turbo" :> Rate(500, 1500)
  @@ "gemini-1.5-pro-latest" :> Rate(3500, 10500)
  @@ "gemini-1.5-flash-latest" :> Rate(350, 1050)
  @@ "gemini-2.5-pro" :> Rate(3500, 10500) @@ "gemini-2.5-flash" :> Rate(350, 1050)

CalculateCost(promptTokens, completionTokens, model) ==
  IF model \notin DOMAIN Pricing
  THEN Cost(0, 0)
  ELSE LET modelPricing == Pricing[model]
       IN Cost(promptTokens * modelPricing.input, completionTokens * modelPricing.output)

\* calculateCost of the single-provider AIService.
PricingSingleProvider ==
  "gpt-4o" :> Rate(5000, 15000) @@ "gpt-4" :> Rate(30000, 60000)
  @@ "gpt-3.5-turbo" :> Rate(500, 1500)

CalculateCostSingleProvider(promptTokens, completionTokens, model) ==
  LET modelPricing == IF model \in DOMAIN PricingSingleProvider
                      THEN PricingSingleProvider[model]
                      ELSE PricingSingleProvider["gpt-4o"]
  IN Cost(promptTokens * modelPricing.input, completionTokens * modelPricing.output)

\* The model name an OpenAI response carries: the one the request named.
ResponseModel(call) == call.model

\* logger.ai.cost: one AI_COST entry.
CostRecord(operation, tokens, estimatedCost, filename, model) ==
  [operation |-> operation, tokens |-> tokens, estimated_cost_usd |-> estimatedCost,
   filename |-> filename, model |-> model]

\* The AI_COST entries one provider call appends. svc is the service when the
\* reply arrives: both provider functions read this.model after their await.
CostEntriesOpenAI(call, resp, svc, filename) ==
  IF resp.throws \/ resp.usage = NoUsage
  THEN << >>
  ELSE << CostRecord("image_analysis", resp.usage,
                     CalculateCost(UsageN(resp.usage, "prompt_tokens"),
                                   UsageN(resp.usage, "completion_tokens"), svc.model),
                     filename, ResponseModel(call)) >>
CostEntriesGemini(call, resp, svc, filename) ==
  IF resp.throws
  THEN << >>
  ELSE LET requestTokens == CeilDiv4(PromptLength)
           responseTokens == CeilDiv4(TextLength(resp.content))
       IN << CostRecord("image_analysis_gemini", UsageOf(requestTokens, responseTokens),
                        CalculateCost(requestTokens, responseTokens, svc.model),
                        filename, svc.model) >>
CostEntries(call, resp, svc, filename) ==
  IF call.provider = "openai" THEN CostEntriesOpenAI(call, resp, svc, filename)
  ELSE CostEntriesGemini(call, resp, svc, filename)

\* The AI_COST entries one call of generateDescription appends; their metadata
\* has neither filename nor model.
DescriptionCostEntries(svc, resp) ==
  IF resp.throws THEN << >>
  ELSE IF svc.provider = "openai"
  THEN IF resp.usage = NoUsage THEN << >>
       ELSE << CostRecord("description_generation", resp.usage,
                          CalculateCost(UsageN(resp.usage, "prompt_tokens"),
                                        UsageN(resp.usage, "completion_tokens"),
                                        "gpt-3.5-turbo"),
                          Undef, Undef) >>
  ELSE LET promptTokens == CeilDiv4(DescriptionPromptLength)
           responseTokens == CeilDiv4(TextLength(resp.content))
       IN << CostRecord("description_generation_gemini",
                        UsageOf(promptTokens, responseTokens),
                        CalculateCost(promptTokens, responseTokens, svc.model),
                        Undef, Undef) >>

\* GET /api/ai/usage: the statistics it computes from the AI_COST entries it
\* reads, one entry after the other; a property an entry lacks counts as 0.
OperationStats(count, c, tokens) == [count |-> count, cost |-> c, tokens |-> tokens]
NewSessionStats ==
  [total_cost |-> 0, total_tokens |-> 0, total_requests |-> 0,
   operations |-> "image_analysis" :> OperationStats(0, 0, 0)
                  @@ "description_generation" :> OperationStats(0, 0, 0)]

\* Mutant: an entry of an operation that is not pre-defined is not counted.
CountEntry_KnownOperationsOnly(sessionStats, logEntry) ==
  LET operation == logEntry.operation
      c == logEntry.estimated_cost_usd.total_cost
      tokens == UsageN(logEntry.tokens, "total_tokens")
      ops == sessionStats.operations
  IN IF operation \in DOMAIN ops
     THEN [total_cost |-> sessionStats.total_cost + c,
           total_tokens |-> sessionStats.total_tokens + tokens,
           total_requests |-> sessionStats.total_requests + 1,
           operations |->
             [ops EXCEPT ![operation] =
                OperationStats(@.count + 1, @.cost + c, @.tokens + tokens)]]
     ELSE sessionStats

CountEntry(sessionStats, logEntry) ==
  LET operation == logEntry.operation
      c == logEntry.estimated_cost_usd.total_cost
      tokens == UsageN(logEntry.tokens, "total_tokens")
      ops == sessionStats.operations
  IN [total_cost |-> sessionStats.total_cost + c,
      total_tokens |-> sessionStats.total_tokens + tokens,
      total_requests |-> sessionStats.total_requests + 1,
      operations |->
        IF operation \in DOMAIN ops
        THEN [ops EXCEPT ![operation] =
                OperationStats(@.count + 1, @.cost + c, @.tokens + tokens)]
        ELSE ops @@ (operation :> OperationStats(1, c, tokens))]

RECURSIVE GetAIUsage(_)
GetAIUsage(log) ==
  IF log = << >> THEN NewSessionStats
  ELSE CountEntry(GetAIUsage(SubSeq(log, 1, Len(log) - 1)), log[Len(log)])

\* ---------------------------------------------------------------- Database
\* A request body: one value per listing field, Null where the body has none.
Body(t, d, p, c) == [title |-> t, description |-> d, price |-> p, category |-> c]
CreateBodies == { Body(Null, Null, Null, Null), Body("My Lamp", Null, Null, Null) }
EditBodies ==
  { Body("My Lamp", Null, Null, Null), Body(Null, Null, "5", Null),
    Body(Null, "Mine", Null, "Tools") }

\* parseFloat of a body's price: NaN (bound as NULL) unless it is numeric.
ParseFloat(p) == IF p \in NumericPrices THEN p ELSE Null
Or(v, default) == IF v \in {Null, "", "0"} THEN default ELSE v

\* An updates object: the set of its properties [f |-> field, v |-> value].
UpdKeys(updates) == { u.f : u \in updates }
UpdVal(updates, f) == (CHOOSE u \in updates : u.f = f).v

\* UPDATE items SET <fields> WHERE id = ?: rejected when no field is given (the
\* statement does not parse) or when NULL is bound to a NOT NULL column of a row.
UpdateRejected(tbl, id, updates) ==
  \/ updates = {}
  \/ /\ tbl[id].exists
     /\ \E u \in updates : u.f \in {"title", "price"} /\ u.v = Null
UpdatedRow(row, updates) ==
  [row EXCEPT
     !.title = IF "title" \in UpdKeys(updates) THEN UpdVal(updates, "title") ELSE @,
     !.description =
        IF "description" \in UpdKeys(updates) THEN UpdVal(updates, "description") ELSE @,
     !.price = IF "price" \in UpdKeys(updates) THEN UpdVal(updates, "price") ELSE @,
     !.category = IF "category" \in UpdKeys(updates) THEN UpdVal(updates, "category") ELSE @]
DbUpdateItem(tbl, id, updates) ==
  IF tbl[id].exists /\ ~UpdateRejected(tbl, id, updates)
  THEN [tbl EXCEPT ![id] = UpdatedRow(tbl[id], updates)]
  ELSE tbl

\* Mutant: an upload without analysis records an error instead of no analysis.
ImageRow_NeverNull(r, id, analysis) ==
  [id |-> r, item_id |-> id, filename |-> FileOf(r),
   ai_analysis |-> IF analysis.present THEN analysis
                   ELSE [NoAnalysis EXCEPT !.present = TRUE,
                                           !.error = "AI service not initialized",
                                           !.error_type = "Error"]]

ImageRow(r, id, analysis) ==
  [id |-> r, item_id |-> id, filename |-> FileOf(r), ai_analysis |-> analysis]

\* ------------------------------------------------------ upload handler parts
\* The handler's test for "field is empty", on the row it read with getItem.
\* Mutant: the placeholder title is taken for a title the user chose.
TitleUnset_EmptyOnly(item) == item.title \in {Null, ""}

TitleUnset(item) == item.title \in {Null, ""} \/ item.title = "New Item"
DescriptionUnset(item) == item.description \in {Null, ""}
PriceUnset(item) == item.price \in {Null, "", "0"} \/ item.price = "0"
CategoryUnset(item) == item.category \in {Null, ""} \/ item.category = "Miscellaneous"

\* Mutant: every suggestion is written, whatever the listing holds.
Reconcile_Overwrite(item, analysis) ==
  { [f |-> "title", v |-> Get(analysis, "title")],
    [f |-> "description", v |-> Get(analysis, "description")],
    [f |-> "price", v |-> Get(analysis, "estimated_price")],
    [f |-> "category", v |-> Get(analysis, "category")] }

\* The updates object built from the row read at the start and the analysis.
Reconcile(item, analysis) ==
  (IF TitleUnset(item) THEN {[f |-> "title", v |-> Get(analysis, "title")]} ELSE {})
  \cup (IF DescriptionUnset(item)
        THEN {[f |-> "description", v |-> Get(analysis, "description")]} ELSE {})
  \cup (IF PriceUnset(item)
        THEN {[f |-> "price", v |-> Get(analysis, "estimated_price")]} ELSE {})
  \cup (IF CategoryUnset(item)
        THEN {[f |-> "category", v |-> Get(analysis, "category")]} ELSE {})

\* aiAnalysis as the handler serialises it for the images row.
SuccessAnalysis(result) ==
  [NoAnalysis EXCEPT !.present = TRUE, !.analysis = result.analysis,
                     !.timing = result.timing, !.usage = result.usage]
FailureAnalysis(result) ==
  [NoAnalysis EXCEPT !.present = TRUE, !.error = result.error,
                     !.error_type = result.error_type, !.hasRaw = result.hasRaw,
                     !.raw_response = result.raw_response, !.timing = result.timing,
                     !.usage = result.usage]
ExceptionAnalysis(message) ==
  [NoAnalysis EXCEPT !.present = TRUE, !.error = message, !.error_type = "Error",
                     !.timing = TimingTotal]

\* The request's end: the response is sent and the handler's locals are dropped.
Respond(q, status) ==
  [q EXCEPT !.pc = "done", !.status = status, !.skipAI = FALSE, !.item = NoItem,
            !.call = NoCall, !.updates = {}, !.aiAnalysis = NoAnalysis, !.pre = NoItem]

Active(r) == req[r].pc \notin {"idle", "done"}

\* DELETE /api/items/:id, not yet issued.
IdleDelete == [pc |-> "idle", id |-> "i1", status |-> 0]

\* No call of calculateCost: variant names the AIService whose method is called.
NoCost ==
  [promptTokens |-> 0, completionTokens |-> 0, model |-> Undef, variant |-> "none",
   result |-> Cost(0, 0)]

\* Table settings as init.sql leaves it; Null where the table has no row. An empty
\* string is a stored value of its own.
SettingKeys == {"openai_api_key", "gemini_api_key", "openai_model", "garage_sale_title"}
DefaultSettings ==
  "openai_api_key" :> Null @@ "gemini_api_key" :> Null
  @@ "openai_model" :> "gpt-4-vision-preview" @@ "garage_sale_title" :> "My Garage Sale"

\* No response of a settings route yet; body is the JSON object of a GET response.
NoResponse == [route |-> "none", status |-> 0, body |-> [k \in SettingKeys |-> Null]]

\* No call of the service by a caller yet; raised says that the promise the call
\* returned was rejected, result is the value it resolved to otherwise.
NoServiceCall == [op |-> "none", raised |-> FALSE, result |-> NoResult]

\* An upload request's timers, in minutes: tries counts the retries the OpenAI
\* client has made, waited the time since its current attempt was sent, idle the
\* time since the request's socket last carried data.
NoTimer == [tries |-> 0, waited |-> 0, idle |-> 0, socket |-> "open"]

\* The create-item page as it is mounted. data is createItem.data (0 for
\* undefined) and current the create mutation the hook observes; creates are the
\* POST /api/items requests in flight, each with the handler that awaits it;
\* listings, uploaded and navigated record what the session did: the listings its
\* requests created, the files uploaded (file, listing) and where it navigated.
NoHandler == [pc |-> "idle", item |-> 0, left |-> 0]
NewPage ==
  [mounted |-> TRUE, formValid |-> FALSE, isUploadingUI |-> FALSE, uploading |-> FALSE,
   data |-> 0, current |-> 0, creates |-> {}, started |-> 0, selections |-> 0,
   files |-> NoHandler, submit |-> NoHandler,
   listings |-> {}, uploaded |-> {}, navigated |-> 0]

\* ------------------------------------------------------------------ actions
Init ==
  /\ items = [i \in ItemIds |-> NoItem]
  /\ images = {}
  /\ files = {}
  /\ thumbs = {}
  /\ ai = NewAIService
  /\ req = [r \in Reqs |-> IdleReq]
  /\ edits = 0
  /\ ledger = << >>
  /\ del = IdleDelete
  /\ cost = NoCost
  /\ settings = DefaultSettings
  /\ res = NoResponse
  /\ svcCall = NoServiceCall
  /\ page = NewPage
  /\ timer = [r \in Reqs |-> NoTimer]

\* POST /api/items
CreateItem(id, body) ==
  /\ ~items[id].exists
  /\ items' = [items EXCEPT ![id] =
       [exists |-> TRUE,
        title |-> Or(body.title, "New Item"),
        description |-> Or(body.description, ""),
        price |-> Or(ParseFloat(body.price), "0"),
        category |-> Or(body.category, "Miscellaneous")]]
  /\ UNCHANGED << images, files, thumbs, ai, req, edits, ledger, cost, del,
                  settings, res, svcCall, page, timer >>

\* PUT /api/items/:id
PutItem(id, body) ==
  /\ edits < MaxEdits
  /\ edits' = edits + 1
  /\ LET updates ==
           { [f |-> f, v |-> IF f = "price" THEN ParseFloat(body[f]) ELSE body[f]] :
               f \in { g \in Fields : body[g] # Null } }
     IN items' = DbUpdateItem(items, id, updates)
  /\ UNCHANGED << images, files, thumbs, ai, req, ledger, cost, del,
                  settings, res, svcCall, page, timer >>

\* AIService.setProvider
SetProvider(provider, apiKey, model) ==
  /\ ai' = SetProviderOf(ai, provider, apiKey, model)
  /\ UNCHANGED << items, images, files, thumbs, req, edits, ledger, cost, del,
                  settings, res, svcCall, page, timer >>

\* multer (fileFilter, size limit, disk storage), then the handler up to getItem;
\* skipAI is the request's query parameter of that name.
Receive(r, id, kind, skipAI) ==
  /\ req[r].pc = "idle"
  /\ \A q \in Reqs : q < r => req[q].pc # "idle"
  /\ LET q == [req[r] EXCEPT !.id = id, !.skipAI = skipAI, !.pre = items[id]]
     IN CASE kind = "valid" ->
               /\ files' = files \cup {FileOf(r)}
               /\ req' = [req EXCEPT ![r] = [q EXCEPT !.pc = "verify"]]
          [] kind = "nofile" ->
               /\ req' = [req EXCEPT ![r] = Respond(q, 400)]
               /\ UNCHANGED files
          [] kind = "oversize" ->
               /\ req' = [req EXCEPT ![r] = Respond(q, 400)]
               /\ UNCHANGED files
          [] kind = "badtype" ->
               /\ req' = [req EXCEPT ![r] = Respond(q, 500)]
               /\ UNCHANGED files
  /\ UNCHANGED << items, images, thumbs, ai, edits, ledger, cost, del,
                  settings, res, svcCall, page, timer >>

\* Mutant: the 404 answer leaves the uploaded file where multer wrote it.
GetItem_KeepsFile(r, ok) ==
  /\ req[r].pc = "verify"
  /\ IF ~ok
     THEN /\ files' = files \ {FileOf(r)}
          /\ req' = [req EXCEPT ![r] = Respond([req[r] EXCEPT !.fault = TRUE], 500)]
     ELSE IF ~items[req[r].id].exists
     THEN /\ UNCHANGED files
          /\ req' = [req EXCEPT ![r] = Respond(req[r], 404)]
     ELSE /\ req' = [req EXCEPT ![r] = [req[r] EXCEPT !.pc = "thumb",
                                                     !.item = items[req[r].id]]]
          /\ UNCHANGED files
  /\ UNCHANGED << items, images, thumbs, ai, edits, ledger, cost, del,
                  settings, res, svcCall, page, timer >>

\* await db.getItem(itemId), then the handler up to createThumbnail.
GetItem(r, ok) ==
  /\ req[r].pc = "verify"
  /\ IF ~ok
     THEN /\ files' = files \ {FileOf(r)}
          /\ req' = [req EXCEPT ![r] = Respond([req[r] EXCEPT !.fault = TRUE], 500)]
     ELSE IF ~items[req[r].id].exists
     THEN /\ files' = files \ {FileOf(r)}
          /\ req' = [req EXCEPT ![r] = Respond(req[r], 404)]
     ELSE /\ req' = [req EXCEPT ![r] = [req[r] EXCEPT !.pc = "thumb",
                                                     !.item = items[req[r].id]]]
          /\ UNCHANGED files
  /\ UNCHANGED << items, images, thumbs, ai, edits, ledger, cost, del,
                  settings, res, svcCall, page, timer >>

\* await createThumbnail(...), then the handler up to the provider call's await.
CreateThumbnail(r, ok) ==
  /\ req[r].pc = "thumb"
  /\ thumbs' = IF ok THEN thumbs \cup {FileOf(r)} ELSE thumbs
  /\ IF IsInitialized(ai)
     THEN req' = [req EXCEPT ![r] = [req[r] EXCEPT !.pc = "ai", !.call = AnalyzeImage(ai),
                                                   !.aiCheck = "initialized", !.calls = @ + 1]]
     ELSE req' = [req EXCEPT ![r] = [req[r] EXCEPT !.pc = "save",
                                                   !.aiCheck = "uninitialized"]]
  /\ UNCHANGED << items, images, files, ai, edits, ledger, cost, del,
                  settings, res, svcCall, page, timer >>

\* The provider call settles; analyzeImage resolves; the handler runs up to
\* await db.updateItem, or to await db.createImage when it has nothing to update.
ProviderReply(r, resp) ==
  /\ req[r].pc = "ai"
  /\ LET result == AnalyzeImageResult(req[r].call, resp)
         updates == Reconcile(req[r].item, result.analysis)
     IN IF result.success
        THEN req' = [req EXCEPT ![r] =
               [req[r] EXCEPT !.aiAnalysis = SuccessAnalysis(result),
                              !.updates = updates,
                              !.pc = IF updates # {} THEN "update" ELSE "save"]]
        ELSE req' = [req EXCEPT ![r] =
               [req[r] EXCEPT !.aiAnalysis = FailureAnalysis(result), !.pc = "save"]]
  /\ ledger' = ledger \o CostEntries(req[r].call, resp, ai, FileOf(r))
  /\ UNCHANGED << items, images, files, thumbs, ai, edits, cost, del,
                  settings, res, svcCall, page, timer >>

\* Mutant: a rejected update reaches the handler's outer catch.
UpdateItem_Uncaught(r, ok) ==
  /\ req[r].pc = "update"
  /\ IF ok /\ ~UpdateRejected(items, req[r].id, req[r].updates)
     THEN /\ items' = DbUpdateItem(items, req[r].id, req[r].updates)
          /\ req' = [req EXCEPT ![r] = [req[r] EXCEPT !.pc = "save"]]
          /\ UNCHANGED files
     ELSE /\ UNCHANGED items
          /\ files' = files \ {FileOf(r)}
          /\ req' = [req EXCEPT ![r] = Respond(req[r], 500)]
  /\ UNCHANGED << images, thumbs, ai, edits, ledger, cost, del,
                  settings, res, svcCall, page, timer >>

\* await db.updateItem(itemId, updates); a rejection is caught by the AI block.
UpdateItem(r, ok) ==
  /\ req[r].pc = "update"
  /\ IF ok /\ ~UpdateRejected(items, req[r].id, req[r].updates)
     THEN /\ items' = DbUpdateItem(items, req[r].id, req[r].updates)
          /\ req' = [req EXCEPT ![r] = [req[r] EXCEPT !.pc = "save"]]
     ELSE /\ UNCHANGED items
          /\ req' = [req EXCEPT ![r] =
               [req[r] EXCEPT !.pc = "save",
                              !.aiAnalysis = ExceptionAnalysis("SQLITE_ERROR")]]
  /\ UNCHANGED << images, files, thumbs, ai, edits, ledger, cost, del,
                  settings, res, svcCall, page, timer >>

\* Mutant: the failure comes after the row was inserted.
CreateImage_FailsAfterInsert(r, ok) ==
  /\ req[r].pc = "save"
  /\ images' = images \cup {ImageRow(r, req[r].id, req[r].aiAnalysis)}
  /\ IF ok
     THEN /\ req' = [req EXCEPT ![r] = Respond(req[r], 201)]
          /\ UNCHANGED files
     ELSE /\ files' = files \ {FileOf(r)}
          /\ req' = [req EXCEPT ![r] = Respond([req[r] EXCEPT !.fault = TRUE], 500)]
  /\ UNCHANGED << items, thumbs, ai, edits, ledger, cost, del,
                  settings, res, svcCall, page, timer >>

\* await db.createImage(imageData), then the response.
CreateImage(r, ok) ==
  /\ req[r].pc = "save"
  /\ IF ok
     THEN /\ images' = images \cup {ImageRow(r, req[r].id, req[r].aiAnalysis)}
          /\ req' = [req EXCEPT ![r] = Respond(req[r], 201)]
          /\ UNCHANGED files
     ELSE /\ files' = files \ {FileOf(r)}
          /\ req' = [req EXCEPT ![r] = Respond([req[r] EXCEPT !.fault = TRUE], 500)]
          /\ UNCHANGED images
  /\ UNCHANGED << items, thumbs, ai, edits, ledger, cost, del,
                  settings, res, svcCall, page, timer >>

\* DELETE /api/items/:id up to await db.deleteItem: getItemImages resolves, then
\* for each row the file is unlinked and, if that did not throw, its thumbnail.
DeleteItemFiles(id) ==
  /\ del.pc = "idle"
  /\ LET unlinked == { i.filename : i \in { j \in images : j.item_id = id } } \cap files
     IN /\ files' = files \ unlinked
        /\ thumbs' = thumbs \ unlinked
  /\ del' = [del EXCEPT !.pc = "delete", !.id = id]
  /\ UNCHANGED << items, images, ai, req, edits, ledger, cost,
                  settings, res, svcCall, page, timer >>

\* DELETE FROM items WHERE id = ?, then the response. The connection never turns
\* foreign keys on, so no row of images is deleted with the item.
DeleteItemRow ==
  /\ del.pc = "delete"
  /\ items' = [items EXCEPT ![del.id] = NoItem]
  /\ del' = [del EXCEPT !.pc = "done",
                        !.status = IF items[del.id].exists THEN 200 ELSE 404]
  /\ UNCHANGED << images, files, thumbs, ai, req, edits, ledger, cost,
                  settings, res, svcCall, page, timer >>

\* DELETE /api/images/:id: DELETE FROM images WHERE id = ?, then the response.
DeleteImage(imageId) ==
  /\ images' = { i \in images : i.id # imageId }
  /\ UNCHANGED << items, files, thumbs, ai, req, edits, ledger, del, cost,
                  settings, res, svcCall, page, timer >>

\* AIService.initialize(config)
InitializeCall(config) ==
  /\ ai' = Initialize(ai, config)
  /\ UNCHANGED << items, images, files, thumbs, req, edits, ledger, del, cost,
                  settings, res, svcCall, page, timer >>

\* A caller awaits aiService.analyzeImage(imagePath), from the call to its
\* settling: the promise is rejected when the service is not initialized.
AnalyzeImageCall(filename, resp) ==
  /\ Len(ledger) < MaxCalls
  /\ IF ~IsInitialized(ai)
     THEN /\ svcCall' = [op |-> "analyzeImage", raised |-> TRUE, result |-> NoResult]
          /\ UNCHANGED ledger
     ELSE /\ svcCall' = [op |-> "analyzeImage", raised |-> FALSE,
                         result |-> AnalyzeImageResult(AnalyzeImage(ai), resp)]
          /\ ledger' = ledger \o CostEntries(AnalyzeImage(ai), resp, ai, filename)
  /\ UNCHANGED << items, images, files, thumbs, ai, req, edits, del, cost,
                  settings, res, page, timer >>

\* A caller awaits aiService.generateDescription(title, category).
GenerateDescriptionCall(resp) ==
  /\ Len(ledger) < MaxCalls
  /\ IF ~IsInitialized(ai)
     THEN /\ svcCall' = [op |-> "generateDescription", raised |-> TRUE,
                         result |-> NoDescription]
          /\ UNCHANGED ledger
     ELSE /\ svcCall' = [op |-> "generateDescription", raised |-> FALSE,
                         result |-> IF ai.provider = "openai"
                                    THEN GenerateDescriptionOpenAI(resp)
                                    ELSE GenerateDescriptionGemini(resp)]
          /\ ledger' = ledger \o DescriptionCostEntries(ai, resp)
  /\ UNCHANGED << items, images, files, thumbs, ai, req, edits, del, cost,
                  settings, res, page, timer >>

\* JavaScript's test `if (v)` on a setting: no row, no property or the empty string.
Falsy(v) == v \in {Null, ""}
Mask == "***CONFIGURED***"

\* A body of PUT /api/settings: one value per key, Null where it has no such
\* property; db.setSetting is called for every property it has.
StoreSettings(store, body) ==
  [k \in SettingKeys |-> IF body[k] # Null THEN body[k] ELSE store[k]]

\* const { provider, openAIKey, geminiKey, model } = config, for the API key the
\* server passes as config: a string has none of these properties.
StringConfig(apiKey) ==
  [provider |-> Undef, openAIKey |-> Undef, geminiKey |-> Undef, model |-> Undef]

\* aiService.initialize(apiKey, model) as the server calls it; initialize has one
\* parameter, so the model is dropped.
InitializeWithKey(svc, apiKey, model) == Initialize(svc, StringConfig(apiKey))

\* The body of the response of GET /api/settings.
SettingsResponse(store) ==
  [k \in SettingKeys |->
     IF k = "openai_api_key" /\ ~Falsy(store[k]) THEN Mask ELSE store[k]]

\* PUT /api/settings, as one step (nothing else writes the table).
PutSettings(body) ==
  /\ settings' = StoreSettings(settings, body)
  /\ LET apiKey == IF ~Falsy(body["openai_api_key"]) THEN body["openai_api_key"]
                   ELSE settings'["openai_api_key"]
         model == IF ~Falsy(body["openai_model"]) THEN body["openai_model"]
                  ELSE settings'["openai_model"]
     IN ai' = IF /\ ~Falsy(body["openai_api_key"]) \/ ~Falsy(body["openai_model"])
                 /\ ~Falsy(apiKey)
              THEN InitializeWithKey(ai, apiKey, model)
              ELSE ai
  /\ res' = [NoResponse EXCEPT !.route = "PUT /api/settings", !.status = 200]
  /\ UNCHANGED << items, images, files, thumbs, req, edits, ledger, del, cost,
                  svcCall, page, timer >>

\* GET /api/settings
GetSettings ==
  /\ res' = [route |-> "GET /api/settings", status |-> 200,
             body |-> SettingsResponse(settings)]
  /\ UNCHANGED << items, images, files, thumbs, ai, req, edits, ledger, del, cost,
                  settings, svcCall, page, timer >>

\* The server starts again on the stored settings: new AIService(), initializeAI().
InitializeAI ==
  /\ LET apiKey == settings["openai_api_key"]
         model == IF Falsy(settings["openai_model"]) THEN "gpt-4o"
                  ELSE settings["openai_model"]
     IN ai' = IF ~Falsy(apiKey) THEN InitializeWithKey(NewAIService, apiKey, model)
              ELSE NewAIService
  /\ UNCHANGED << items, images, files, thumbs, req, edits, ledger, del, cost,
                  settings, res, svcCall, page, timer >>

\* Timeouts in minutes: the OpenAI client's per-attempt timeout (120000 ms) and
\* its maxRetries, and the socket timeout of the image routes (180000 ms). The
\* Gemini client is constructed with the key alone and its call has no timeout.
OpenAITimeout == 2
MaxRetries == 2
SocketTimeout == 3

CallTimed(r) == req[r].pc = "ai" /\ req[r].call.provider = "openai"
SocketTimed(r) == req[r].pc = "ai" /\ timer[r].socket = "open"

\* A minute passes while a provider call is awaited (every other step of the
\* handler takes no time); a timeout that is due fires before time moves on.
Tick ==
  /\ \E r \in Reqs : CallTimed(r) \/ SocketTimed(r)
  /\ \A r \in Reqs : CallTimed(r) => timer[r].waited < OpenAITimeout
  /\ \A r \in Reqs : SocketTimed(r) => timer[r].idle < SocketTimeout
  /\ timer' = [r \in Reqs |->
       [timer[r] EXCEPT !.waited = IF CallTimed(r) THEN @ + 1 ELSE @,
                        !.idle = IF SocketTimed(r) THEN @ + 1 ELSE @]]
  /\ UNCHANGED << items, images, files, thumbs, ai, req, edits, ledger, del, cost,
                  settings, res, svcCall, page >>

\* The OpenAI client's attempt times out: it sends the request again, or after
\* maxRetries retries the call throws and analyzeImage resolves to a failure.
ProviderTimeout(r) ==
  /\ CallTimed(r)
  /\ timer[r].waited = OpenAITimeout
  /\ IF timer[r].tries < MaxRetries
     THEN /\ timer' = [timer EXCEPT ![r].tries = @ + 1, ![r].waited = 0]
          /\ UNCHANGED << items, images, files, thumbs, ai, req, edits, ledger, del, cost,
                          settings, res, svcCall, page >>
     ELSE ProviderReply(r, [throws |-> TRUE, content |-> << >>, usage |-> NoUsage])

\* The request's socket was idle for the time set by req.setTimeout and
\* res.setTimeout; no 'timeout' listener exists, so the socket is destroyed and
\* whatever the handler sends later reaches nobody.
SocketTimeoutFires(r) ==
  /\ SocketTimed(r)
  /\ timer[r].idle = SocketTimeout
  /\ timer' = [timer EXCEPT ![r].socket = "destroyed"]
  /\ UNCHANGED << items, images, files, thumbs, ai, req, edits, ledger, del, cost,
                  settings, res, svcCall, page >>

\* createItem.isLoading || uploadImageOnly.isLoading
IsLoading(pg) == (\E c \in pg.creates : c.n = pg.current) \/ pg.uploading

\* createItem.mutateAsync(formData): the hook observes the new mutation, whose
\* data is undefined until it succeeds.
MutateAsync(pg, by) ==
  [pg EXCEPT !.started = @ + 1, !.current = pg.started + 1, !.data = 0,
             !.creates = @ \cup {[n |-> pg.started + 1, by |-> by]}]

\* navigate(`/items/${item.id}`): the page is unmounted.
Navigate(pg, item) ==
  [pg EXCEPT !.navigated = item, !.mounted = FALSE, !.submit = NoHandler]

\* The user fills in title and price.
FillForm ==
  /\ page.mounted /\ ~page.formValid
  /\ page' = [page EXCEPT !.formValid = TRUE]
  /\ UNCHANGED << items, images, files, thumbs, ai, req, edits, ledger, del, cost,
                  settings, res, svcCall, timer >>

\* handleFilesSelected up to its first await; the dropzone is disabled while
\* isUploadingUI is set.
HandleFilesSelected(n) ==
  /\ page.mounted /\ ~page.isUploadingUI
  /\ page.files.pc = "idle"
  /\ page.selections < MaxSelections
  /\ page.data = 0 => page.started < MaxCreates
  /\ LET pg == [page EXCEPT !.isUploadingUI = TRUE, !.selections = @ + 1]
     IN page' = IF page.data = 0
                THEN [MutateAsync(pg, "files") EXCEPT
                        !.files = [pc |-> "creating", item |-> 0, left |-> n]]
                ELSE [pg EXCEPT !.files = [pc |-> "uploading", item |-> page.data,
                                           left |-> n],
                                !.uploading = TRUE]
  /\ UNCHANGED << items, images, files, thumbs, ai, req, edits, ledger, del, cost,
                  settings, res, svcCall, timer >>

\* handleSubmit up to its first await; the Save button is disabled while
\* isLoading or while title or price is empty.
HandleSubmit ==
  /\ page.mounted /\ page.formValid /\ ~IsLoading(page)
  /\ page.submit.pc = "idle"
  /\ page.data = 0 => page.started < MaxCreates
  /\ page' = IF page.data = 0
             THEN [MutateAsync(page, "submit") EXCEPT !.submit.pc = "creating"]
             ELSE Navigate(page, page.data)
  /\ UNCHANGED << items, images, files, thumbs, ai, req, edits, ledger, del, cost,
                  settings, res, svcCall, timer >>

\* A POST /api/items request of the session is answered; the handler that awaits
\* it goes on to its next await.
CreateResolves(c, ok) ==
  /\ c \in page.creates
  /\ LET pg == [page EXCEPT
                  !.creates = @ \ {c},
                  !.listings = IF ok THEN @ \cup {c.n} ELSE @,
                  !.data = IF ok /\ c.n = page.current THEN c.n ELSE @]
     IN page' =
          IF c.by = "files"
          THEN IF ok
               THEN [pg EXCEPT !.files.pc = "uploading", !.files.item = c.n,
                               !.uploading = TRUE]
               ELSE [pg EXCEPT !.files = NoHandler, !.isUploadingUI = FALSE]
          ELSE IF ok THEN Navigate(pg, c.n) ELSE [pg EXCEPT !.submit = NoHandler]
  /\ UNCHANGED << items, images, files, thumbs, ai, req, edits, ledger, del, cost,
                  settings, res, svcCall, timer >>

\* An upload of the file loop is answered: the next file is uploaded, or the
\* loop ends and the reset of the progress display is scheduled.
UploadResolves(ok) ==
  /\ page.files.pc = "uploading"
  /\ page' =
       IF ~ok
       THEN [page EXCEPT !.files = NoHandler, !.uploading = FALSE,
                         !.isUploadingUI = FALSE]
       ELSE LET pg == [page EXCEPT
                         !.uploaded = @ \cup {<< page.selections, page.files.left,
                                                 page.files.item >>},
                         !.files.left = @ - 1]
            IN IF page.files.left > 1 THEN pg
               ELSE [pg EXCEPT !.files.pc = "finished", !.uploading = FALSE]
  /\ UNCHANGED << items, images, files, thumbs, ai, req, edits, ledger, del, cost,
                  settings, res, svcCall, timer >>

\* setTimeout(..., 2000) of handleFilesSelected fires.
ResetUploadUI ==
  /\ page.files.pc = "finished"
  /\ page' = [page EXCEPT !.files = NoHandler, !.isUploadingUI = FALSE]
  /\ UNCHANGED << items, images, files, thumbs, ai, req, edits, ledger, del, cost,
                  settings, res, svcCall, timer >>

\* Arguments of setProvider: provider, API key, model (Undef where not given).
ProviderSettings ==
  { << "openai", "key", Undef >>, << "openai", "key", "gpt-4o-mini" >>,
    << "gemini", "key", Undef >>, << "gemini", Undef, Undef >>,
    << "claude", "key", Undef >> }
UploadKinds == {"valid", "nofile", "oversize", "badtype"}
Throws == [throws |-> TRUE, content |-> << >>, usage |-> NoUsage]
Replied(c) == [throws |-> FALSE, content |-> c, usage |-> ReportedUsage]

\* Overlapping uploads, edits of the title and provider switches in any
\* interleaving; the provider throws or returns a well-formed reply and the
\* database does not fail.
Next ==
  \/ \E id \in ItemIds, body \in CreateBodies : CreateItem(id, body)
  \/ \E id \in ItemIds : PutItem(id, Body("My Lamp", Null, Null, Null))
  \/ \E a \in ProviderSettings : SetProvider(a[1], a[2], a[3])
  \/ \E r \in Reqs, id \in ItemIds : Receive(r, id, "valid", FALSE)
  \/ \E r \in Reqs : GetItem(r, TRUE)
  \/ \E r \in Reqs : CreateThumbnail(r, TRUE)
  \/ \E r \in Reqs, resp \in {Throws, Replied(ReplyPartial)} : ProviderReply(r, resp)
  \/ \E r \in Reqs : UpdateItem(r, TRUE)
  \/ \E r \in Reqs : CreateImage(r, TRUE)

Spec == Init /\ [][Next]_vars

\* Uploads one after the other, with no other request while one runs; every kind
\* of upload, every provider response and every database failure.
Quiet == \A r \in Reqs : ~Active(r)
NextSeq ==
  \/ Quiet /\ \E id \in ItemIds, body \in CreateBodies : CreateItem(id, body)
  \/ Quiet /\ \E id \in ItemIds, body \in EditBodies : PutItem(id, body)
  \/ Quiet /\ \E a \in ProviderSettings : SetProvider(a[1], a[2], a[3])
  \/ Quiet /\ \E r \in Reqs, id \in ItemIds, kind \in UploadKinds :
                Receive(r, id, kind, FALSE)
  \/ \E r \in Reqs, ok \in BOOLEAN : GetItem(r, ok)
  \/ \E r \in Reqs, ok \in BOOLEAN : CreateThumbnail(r, ok)
  \/ \E r \in Reqs, resp \in Responses : ProviderReply(r, resp)
  \/ \E r \in Reqs, ok \in BOOLEAN : UpdateItem(r, ok)
  \/ \E r \in Reqs, ok \in BOOLEAN : CreateImage(r, ok)

SpecSeq == Init /\ [][NextSeq]_vars

\* Uploads, with or without skipAI, overlapping with the deletion of the listing
\* and of images; OpenAI is configured or not, and a listing that was deleted is
\* not created again (its id is a fresh uuid).
NextOps ==
  \/ del.pc = "idle" /\ \E id \in ItemIds : CreateItem(id, Body(Null, Null, Null, Null))
  \/ SetProvider("openai", "key", Undef)
  \/ \E r \in Reqs, id \in ItemIds, skipAI \in BOOLEAN : Receive(r, id, "valid", skipAI)
  \/ \E r \in Reqs : GetItem(r, TRUE)
  \/ \E r \in Reqs, ok \in BOOLEAN : CreateThumbnail(r, ok)
  \/ \E r \in Reqs, resp \in {Throws, Replied(ReplyPartial)} : ProviderReply(r, resp)
  \/ \E r \in Reqs : UpdateItem(r, TRUE)
  \/ \E r \in Reqs, ok \in BOOLEAN : CreateImage(r, ok)
  \/ \E id \in ItemIds : DeleteItemFiles(id)
  \/ DeleteItemRow
  \/ \E r \in Reqs : DeleteImage(r)

SpecOps == Init /\ [][NextOps]_vars

\* calculateCost on its own: any token counts and model name, for the method of
\* either AIService.
TokenCounts == {0, 30, 100, 412}
CostModels ==
  { "gpt-4o", "gpt-4o-mini", "gpt-3.5-turbo", "gemini-2.5-pro", "gemini-2.5-flash",
    "gpt-5" }
CostVariants == {"multi-provider", "single-provider"}

InitCost ==
  /\ items = [i \in ItemIds |-> NoItem]
  /\ images = {}
  /\ files = {}
  /\ thumbs = {}
  /\ ai = NewAIService
  /\ req = [r \in Reqs |-> IdleReq]
  /\ edits = 0
  /\ ledger = << >>
  /\ del = IdleDelete
  /\ cost \in { [NoCost EXCEPT !.promptTokens = p, !.completionTokens = c, !.model = m] :
                  p \in TokenCounts, c \in TokenCounts, m \in CostModels }
  /\ settings = DefaultSettings
  /\ res = NoResponse
  /\ svcCall = NoServiceCall
  /\ page = NewPage
  /\ timer = [r \in Reqs |-> NoTimer]

CalculateCostCall(variant) ==
  /\ cost.variant = "none"
  /\ cost' = [cost EXCEPT
       !.variant = variant,
       !.result =
         IF variant = "multi-provider"
         THEN CalculateCost(cost.promptTokens, cost.completionTokens, cost.model)
         ELSE CalculateCostSingleProvider(cost.promptTokens, cost.completionTokens,
                                          cost.model)]
  /\ UNCHANGED << items, images, files, thumbs, ai, req, edits, ledger, del,
                  settings, res, svcCall, page, timer >>

NextCost == \E variant \in CostVariants : CalculateCostCall(variant)

SpecCost == InitCost /\ [][NextCost]_vars

\* The service on its own: initialize and setProvider with any arguments, and
\* callers of analyzeImage and generateDescription in whatever state it is in.
InitConfigs ==
  { [provider |-> p, openAIKey |-> ok, geminiKey |-> gk, model |-> m] :
      p \in {"openai", "gemini", "claude"}, ok \in {Undef, "key"},
      gk \in {Undef, "key"}, m \in {Undef, "gpt-4o-mini"} }

NextService ==
  \/ \E config \in InitConfigs : InitializeCall(config)
  \/ \E a \in ProviderSettings : SetProvider(a[1], a[2], a[3])
  \/ \E resp \in Responses : AnalyzeImageCall("lamp.jpg", resp)
  \/ \E resp \in Responses : GenerateDescriptionCall(resp)

SpecService == Init /\ [][NextService]_vars

\* Uploads one at a time with time passing: the provider answers or stays
\* silent, the database does not fail. The handler's steps and the timers are
\* taken when they are due; requests, provider switches and provider replies
\* come when they come, or never.
NextLive ==
  \/ \E id \in ItemIds : CreateItem(id, Body(Null, Null, Null, Null))
  \/ Quiet /\ \E p \in {"openai", "gemini"} : SetProvider(p, "key", Undef)
  \/ Quiet /\ \E r \in Reqs, id \in ItemIds : Receive(r, id, "valid", FALSE)
  \/ \E r \in Reqs : GetItem(r, TRUE)
  \/ \E r \in Reqs : CreateThumbnail(r, TRUE)
  \/ \E r \in Reqs, resp \in {Throws, Replied(ReplyPartial)} : ProviderReply(r, resp)
  \/ \E r \in Reqs : UpdateItem(r, TRUE)
  \/ \E r \in Reqs : CreateImage(r, TRUE)
  \/ Tick
  \/ \E r \in Reqs : ProviderTimeout(r)
  \/ \E r \in Reqs : SocketTimeoutFires(r)

FairLive ==
  /\ WF_vars(Tick)
  /\ \A r \in Reqs :
       /\ WF_vars(GetItem(r, TRUE))
       /\ WF_vars(CreateThumbnail(r, TRUE))
       /\ WF_vars(UpdateItem(r, TRUE))
       /\ WF_vars(CreateImage(r, TRUE))
       /\ WF_vars(ProviderTimeout(r))
       /\ WF_vars(SocketTimeoutFires(r))

SpecLive == Init /\ [][NextLive]_vars /\ FairLive

\* The settings routes and uploads one at a time; the service is configured
\* through the settings only and the database does not fail.
SettingsBodies ==
  { "openai_api_key" :> k @@ "gemini_api_key" :> g @@ "openai_model" :> m
    @@ "garage_sale_title" :> Null :
      k \in {Null, "", "sk-1", "sk-2"}, g \in {Null, "AIza-1", "AIza-2"},
      m \in {Null, "gpt-4o-mini"} }

NextSettings ==
  \/ \E id \in ItemIds : CreateItem(id, Body(Null, Null, Null, Null))
  \/ \E body \in SettingsBodies : PutSettings(body)
  \/ GetSettings
  \/ Quiet /\ InitializeAI
  \/ Quiet /\ \E r \in Reqs, id \in ItemIds : Receive(r, id, "valid", FALSE)
  \/ \E r \in Reqs : GetItem(r, TRUE)
  \/ \E r \in Reqs : CreateThumbnail(r, TRUE)
  \/ \E r \in Reqs : CreateImage(r, TRUE)

SpecSettings == Init /\ [][NextSettings]_vars

\* One session of the create-item page: the user's actions in any order the page
\* allows, and the answers of the server at any time.
NextPage ==
  \/ FillForm
  \/ \E n \in 1..MaxFiles : HandleFilesSelected(n)
  \/ HandleSubmit
  \/ \E c \in page.creates, ok \in BOOLEAN : CreateResolves(c, ok)
  \/ \E ok \in BOOLEAN : UploadResolves(ok)
  \/ ResetUploadUI

SpecPage == Init /\ [][NextPage]_vars

\* ============================================================== properties
\* A listing field holds its "unset" value: nothing (empty or NULL), or the
\* placeholder of the field.
Unset(f, v) ==
  \/ v \in {Null, ""}
  \/ f = "title" /\ v = "New Item"
  \/ f = "category" /\ v = "Miscellaneous"
  \/ f = "price" /\ v = "0"

\* The member of the analysis that is suggested for a listing field.
SuggestionKey(f) == IF f = "price" THEN "estimated_price" ELSE f

IsSuccess(a) == a.present /\ a.error = Undef
IsFailure(a) == a.present /\ a.error # Undef
RowsOf(r) == { i \in images : i.filename = FileOf(r) }
Finishes(r) == req[r].pc # "done" /\ req'[r].pc = "done"
AnalysisOf(content) == JsonParse(JsonMatch(content))

\* C1: with uploads one after the other, a listing field that held a value other
\* than its unset value when an upload started holds that same value after every
\* step of the upload, its last one included.
C1_SetFieldsKept ==
  [][\A r \in Reqs :
       (Active(r) /\ req[r].pre.exists) =>
         \A f \in Fields :
           ~Unset(f, req[r].pre[f]) => items'[req[r].id][f] = req[r].pre[f]]_vars

\* C1 witness: two analyses succeeded one after the other, the first suggesting
\* "Oak Desk" for 40 and the second "Vintage Lamp" for 12, and the listing still
\* holds what the first one filled in.
C1_Witness ==
  /\ \E i \in RowsOf(1) : i.ai_analysis.analysis = AnalysisOf(ReplyFull)
  /\ \E i \in RowsOf(2) : /\ IsSuccess(i.ai_analysis)
                          /\ i.ai_analysis.analysis = AnalysisOf(ReplyPartial)
  /\ items["i1"].title = "Oak Desk"
  /\ items["i1"].price = "40"

\* C2: whenever an upload's UPDATE writes a suggested value into a field of the
\* stored listing, that field holds its unset value at that moment.
C2_WritesOnlyUnsetFields ==
  [][\A r \in Reqs :
       (/\ UpdateItem(r, TRUE)
        /\ items[req[r].id].exists
        /\ ~UpdateRejected(items, req[r].id, req[r].updates)) =>
         \A u \in req[r].updates : Unset(u.f, items[req[r].id][u.f])]_vars

\* C3: when an upload ends with 201 and a successful analysis, every listing
\* field that was unset when the upload started holds the analysis' suggestion for
\* it and every other field holds what it held.
C3_UnsetFieldsFilled ==
  [][\A r \in Reqs :
       (/\ req[r].pc = "save"
        /\ req'[r].status = 201
        /\ IsSuccess(req[r].aiAnalysis)) =>
         \A f \in Fields :
           items'[req[r].id][f] =
             IF Unset(f, req[r].pre[f])
             THEN Get(req[r].aiAnalysis.analysis, SuggestionKey(f))
             ELSE req[r].pre[f]]_vars

\* C3 witness: the only upload so far, to a listing created with title "New Item"
\* and price 0 and never edited, got {title: "Vintage Lamp", estimated_price: 12}.
C3_Witness ==
  /\ edits = 0
  /\ req[1].pc = "done" /\ req[1].status = 201
  /\ req[2].pc = "idle"
  /\ \E i \in RowsOf(1) : /\ IsSuccess(i.ai_analysis)
                          /\ i.ai_analysis.analysis = AnalysisOf(ReplyPartial)
  /\ items["i1"].title = "Vintage Lamp"
  /\ items["i1"].price = "12"

\* C4: an upload whose handler finds no provider configured makes no provider
\* call and never modifies the listing, and unless the database fails it ends with
\* 201 and exactly one image row, whose ai_analysis is null.
C4_AfterCheck(r) ==
  req[r].aiCheck = "uninitialized" =>
    /\ req[r].calls = 0
    /\ req[r].pc \in {"save", "done"}
    /\ (req[r].pc = "done" /\ ~req[r].fault) =>
         /\ req[r].status = 201
         /\ Cardinality(RowsOf(r)) = 1
         /\ \A i \in RowsOf(r) : ~i.ai_analysis.present
C4_NoProviderNoAnalysis ==
  [][\A r \in Reqs :
       /\ C4_AfterCheck(r)'
       /\ (req'[r] # req[r] /\ req'[r].aiCheck # "initialized") => items' = items]_vars

\* C4 witness: an upload to an existing listing ended with 201 while no provider
\* was configured.
C4_Witness ==
  \E r \in Reqs :
    /\ req[r].pc = "done" /\ req[r].status = 201
    /\ req[r].aiCheck = "uninitialized"
    /\ ~IsInitialized(ai)
    /\ items[req[r].id].exists

\* C5: an upload that dispatched a provider call ends, unless the database
\* fails, with 201, its file on disk and its image row stored, whatever the
\* provider did.
C5_AnalysisNeverFailsUpload ==
  [][\A r \in Reqs :
       (Finishes(r) /\ req[r].aiCheck = "initialized" /\ ~req'[r].fault) =>
         /\ req'[r].status = 201
         /\ FileOf(r) \in files'
         /\ RowsOf(r)' # {}]_vars

\* C5 witness: an upload ended with 201 although storing the suggestions was
\* rejected (the reply had no title for an untitled listing).
C5_Witness ==
  \E r \in Reqs :
    /\ req[r].pc = "done" /\ req[r].status = 201
    /\ FileOf(r) \in files
    /\ \E i \in RowsOf(r) : i.ai_analysis = ExceptionAnalysis("SQLITE_ERROR")

\* C6: an upload request has exactly one image row once it has ended with 201,
\* and none before that or when it ended with any other status.
C6_OneRowPerSuccess ==
  \A r \in Reqs :
    Cardinality(RowsOf(r)) = IF req[r].pc = "done" /\ req[r].status = 201 THEN 1 ELSE 0

\* C6 witness: one upload ended with 201 and one with 500 after the insert of its
\* image row failed.
C6_Witness ==
  /\ req[1].pc = "done" /\ req[1].status = 201
  /\ req[2].pc = "done" /\ req[2].status = 500 /\ req[2].fault
  /\ req[2].aiCheck # "none"
  /\ Cardinality(images) = 1

\* C7: a reply without a {...} block gives, for either provider, a failure whose
\* raw text is the whole reply, and leaves the listing as it is; the outcome the
\* handler holds is the one stored in the image row.
HasBlock(content) ==
  \E i, j \in 1..Len(content) : i < j /\ content[i].k = "{" /\ content[j].k = "}"
C7_RawReplyKept ==
  [][\A r \in Reqs :
       /\ \A resp \in Responses :
            (ProviderReply(r, resp) /\ ~resp.throws /\ ~HasBlock(resp.content)) =>
              /\ IsFailure(req'[r].aiAnalysis)
              /\ req'[r].aiAnalysis.hasRaw
              /\ req'[r].aiAnalysis.raw_response = resp.content
              /\ req'[r].pc = "save"
              /\ items' = items
       /\ (req[r].pc = "save" /\ req'[r].status = 201) =>
            /\ RowsOf(r)' # {}
            /\ \A i \in RowsOf(r)' : i.ai_analysis = req[r].aiAnalysis
            /\ items' = items]_vars

\* C7 witness: OpenAI answered the first upload in prose and Gemini left the
\* second one's brace open; both rows hold the reply and the listing is untouched.
C7_Witness ==
  /\ \E i \in RowsOf(1) : /\ i.ai_analysis.hasRaw
                          /\ i.ai_analysis.raw_response = ReplyProse
                          /\ i.ai_analysis.timing = TimingFull
  /\ \E i \in RowsOf(2) : /\ i.ai_analysis.hasRaw
                          /\ i.ai_analysis.raw_response = ReplyUnclosed
                          /\ i.ai_analysis.timing = {}
  /\ items["i1"].title = "New Item"
  /\ items["i1"].price = "0"

\* C8: a stored outcome is a success only if the parsed object has a title, a
\* numeric estimated_price and all five structured fields.
C8_SuccessIsValidated ==
  \A i \in images :
    IsSuccess(i.ai_analysis) =>
      /\ HasKey(i.ai_analysis.analysis, "title")
      /\ Get(i.ai_analysis.analysis, "estimated_price") \in NumericPrices
      /\ \A k \in {"title", "description", "category", "estimated_price", "condition"} :
           HasKey(i.ai_analysis.analysis, k)

\* C9: every outcome stored on an image row carries timing (total and provider
\* call) and usage (prompt and completion tokens).
C9_TimingAndUsageStored ==
  \A i \in images :
    i.ai_analysis.present =>
      /\ TimingFull \subseteq i.ai_analysis.timing
      /\ {"prompt_tokens", "completion_tokens"} \subseteq { u.k : u \in i.ai_analysis.usage }

\* C10: a provider call is sent to the provider and model active at dispatch, a
\* later setProvider leaves the call in flight as it is, and its reply is
\* interpreted by the provider it was sent to.
Outcome(result) ==
  IF result.success THEN SuccessAnalysis(result) ELSE FailureAnalysis(result)
OpenAIOutcomes == { Outcome(AnalyzeImageOpenAI(resp)) : resp \in Responses }
GeminiOutcomes == { Outcome(AnalyzeImageGemini(resp)) : resp \in Responses }
C10_DispatchedCallKeepsProvider ==
  [][/\ OpenAIOutcomes \cap GeminiOutcomes = {}
     /\ \A r \in Reqs :
          /\ (req[r].pc = "thumb" /\ req'[r].pc = "ai") =>
               req'[r].call = [present |-> TRUE, provider |-> ai.provider,
                               model |-> ai.model]
          /\ (req[r].pc = "ai" /\ req'[r].pc = "ai") => req'[r].call = req[r].call
          /\ (req[r].pc = "ai" /\ req'[r].pc # "ai") =>
               IF req[r].call.provider = "openai"
               THEN req'[r].aiAnalysis \in OpenAIOutcomes
               ELSE req'[r].aiAnalysis \in GeminiOutcomes]_vars

\* C10 witness: a call sent to OpenAI with gpt-4o-mini is in flight while the
\* active provider is Gemini.
C10_Witness ==
  \E r \in Reqs :
    /\ req[r].pc = "ai"
    /\ req[r].call.provider = "openai" /\ req[r].call.model = "gpt-4o-mini"
    /\ ai.provider = "gemini" /\ ai.model = DefaultGeminiModel

\* C11: the cost entry a provider call appends names the model the request was
\* sent with and prices its tokens at that model's rates, whatever setProvider
\* did while the reply was awaited.
C11_CostUsesDispatchedModel ==
  [][\A r \in Reqs :
       (req[r].pc = "ai" /\ req'[r].pc # "ai" /\ Len(ledger') = Len(ledger) + 1) =>
         LET entry == ledger'[Len(ledger')]
         IN /\ entry.model = req[r].call.model
            /\ entry.estimated_cost_usd =
                 CalculateCost(UsageN(entry.tokens, "prompt_tokens"),
                               UsageN(entry.tokens, "completion_tokens"),
                               req[r].call.model)]_vars

\* C12: at no time are two provider calls for the same listing in flight.
C12_OneCallPerListing ==
  \A r1, r2 \in Reqs :
    (req[r1].pc = "ai" /\ req[r2].pc = "ai" /\ req[r1].id = req[r2].id) => r1 = r2

\* C13: the totals GET /api/ai/usage returns are the sums over the cost entries
\* appended so far: of their costs (input plus output), of their token counts
\* (prompt plus completion) and their number.
RECURSIVE SumFrom(_, _, _)
SumFrom(Part(_), log, i) ==
  IF i > Len(log) THEN 0 ELSE Part(log[i]) + SumFrom(Part, log, i + 1)
EntryCost(entry) == entry.estimated_cost_usd.input_cost + entry.estimated_cost_usd.output_cost
EntryTokens(entry) ==
  UsageN(entry.tokens, "prompt_tokens") + UsageN(entry.tokens, "completion_tokens")
C13_TotalsAreSums ==
  LET sessionStats == GetAIUsage(ledger)
  IN /\ sessionStats.total_cost = SumFrom(EntryCost, ledger, 1)
     /\ sessionStats.total_tokens = SumFrom(EntryTokens, ledger, 1)
     /\ sessionStats.total_requests = Len(ledger)

\* C13 witness: two provider calls overlapped, one to OpenAI and one to Gemini,
\* and the second upload's call was answered first; the totals count both.
C13_Witness ==
  /\ Len(ledger) = 2
  /\ ledger[1].filename = FileOf(2) /\ ledger[2].filename = FileOf(1)
  /\ { ledger[1].operation, ledger[2].operation } =
       { "image_analysis", "image_analysis_gemini" }
  /\ GetAIUsage(ledger).total_requests = 2
  /\ GetAIUsage(ledger).total_cost > 0

\* C14: calculateCost returns prompt tokens times the model's input rate, completion
\* tokens times its output rate and their sum, and three zeros for a model that its
\* pricing table does not have.
C14_CostFormula ==
  cost.variant # "none" =>
    LET pricing == IF cost.variant = "multi-provider" THEN Pricing
                   ELSE PricingSingleProvider
    IN IF cost.model \in DOMAIN pricing
       THEN /\ cost.result.input_cost = cost.promptTokens * pricing[cost.model].input
            /\ cost.result.output_cost = cost.completionTokens * pricing[cost.model].output
            /\ cost.result.total_cost = cost.result.input_cost + cost.result.output_cost
       ELSE /\ cost.result.input_cost = 0
            /\ cost.result.output_cost = 0
            /\ cost.result.total_cost = 0

\* C15: the usage an outcome carries is the backend's own prompt and completion
\* token counts when the response has them (OpenAI), and otherwise a quarter of
\* the length, rounded up, of the prompt and of the reply text; a quarter of 400
\* and of 120 characters are 100 and 30.
C15_UsageExactOrEstimated ==
  [][/\ CeilDiv4(400) = 100
     /\ CeilDiv4(120) = 30
     /\ \A r \in Reqs : \A resp \in Responses :
          (/\ ProviderReply(r, resp)
           /\ ~resp.throws
           /\ req'[r].aiAnalysis.usage # NoUsage) =>
            LET usage == req'[r].aiAnalysis.usage
                exact == req[r].call.provider = "openai" /\ resp.usage # NoUsage
            IN /\ UsageN(usage, "prompt_tokens") =
                    IF exact THEN UsageN(resp.usage, "prompt_tokens")
                    ELSE CeilDiv4(PromptLength)
               /\ UsageN(usage, "completion_tokens") =
                    IF exact THEN UsageN(resp.usage, "completion_tokens")
                    ELSE CeilDiv4(TextLength(resp.content))]_vars

\* C16: an upload of a type that is not allowed, or of more than 10MB, is answered
\* with a 4xx status and leaves no file, no thumbnail and no image row.
C16_BadUploadRejected ==
  [][\A r \in Reqs, id \in ItemIds : \A kind \in {"badtype", "oversize"} :
       Receive(r, id, kind, FALSE) =>
         /\ req'[r].status \in 400..499
         /\ FileOf(r) \notin files'
         /\ FileOf(r) \notin thumbs'
         /\ RowsOf(r)' = {}]_vars

\* C17: once an upload has ended with an error status, neither its file nor its
\* thumbnail is on disk.
C17_NoFilesAfterError ==
  \A r \in Reqs :
    (req[r].pc = "done" /\ req[r].status >= 400) =>
      /\ FileOf(r) \notin files
      /\ FileOf(r) \notin thumbs

\* C18: an upload sent with skipAI=true dispatches no provider call, and so holds
\* no analysis outcome and nothing to write to the listing.
C18_SkipAISkipsAnalysis ==
  \A r \in Reqs :
    req[r].skipAI =>
      /\ req[r].pc # "ai"
      /\ req[r].calls = 0
      /\ ~req[r].aiAnalysis.present
      /\ req[r].updates = {}

\* C19: every row of images refers to a listing that exists.
C19_ImagesHaveListing ==
  \A i \in images : items[i.item_id].exists

\* C20: after DELETE /api/images/:id neither the image's file nor its thumbnail
\* is on disk, whether either was there before or not.
C20_DeleteImageRemovesFiles ==
  [][\A r \in Reqs :
       DeleteImage(r) => FileOf(r) \notin files' /\ FileOf(r) \notin thumbs']_vars

\* C21: analyzeImage and generateDescription never raise to their caller: in every
\* state of the service and whatever the provider does, the call resolves to an
\* outcome whose success is true or false.
C21_ServiceNeverRaises ==
  svcCall.op # "none" => (~svcCall.raised /\ svcCall.result.success \in BOOLEAN)

\* C22: an image record starts without an analysis outcome (Uploaded) and its
\* state changes only from Uploaded or AnalysisFailed, through an analysis that
\* was requested, to AnalysisComplete or AnalysisFailed; AnalysisComplete is final.
AssetState(row) ==
  IF ~row.ai_analysis.present THEN "Uploaded"
  ELSE IF IsSuccess(row.ai_analysis) THEN "AnalysisComplete"
  ELSE "AnalysisFailed"
C22_AssetStateMachine ==
  [][/\ \A j \in images' :
          (\A i \in images : i.id # j.id) => AssetState(j) = "Uploaded"
     /\ \A i \in images, j \in images' :
          (i.id = j.id /\ j # i) =>
            /\ AssetState(i) \in {"Uploaded", "AnalysisFailed"}
            /\ AssetState(j) \in {"AnalysisComplete", "AnalysisFailed"}]_vars

\* C23: every accepted upload request eventually gets its response, whichever
\* provider is active and even if the provider never replies.
Received(r) == req[r].pc = "done" /\ timer[r].socket = "open"
C23_UploadAnswered ==
  \A r \in Reqs : (req[r].pc = "verify") ~> Received(r)

\* C24: every analysis attempt whose provider call was dispatched appends exactly
\* one cost entry when it ends, in success or in failure, and leaves the listing
\* and the image rows alone when it fails.
C24_OneEntryPerAttempt ==
  [][\A r \in Reqs :
       (req[r].pc = "ai" /\ req'[r].pc # "ai") =>
         /\ Len(ledger') = Len(ledger) + 1
         /\ IsFailure(req'[r].aiAnalysis) => (items' = items /\ images' = images)]_vars

\* C25: once a non-empty OpenAI API key is stored, by PUT /api/settings or at the
\* server's start, the service is initialized, and an upload to an existing
\* listing that finds the key stored dispatches a provider call.
C25_StoredKeyInitializes ==
  [][/\ ~Falsy(settings'["openai_api_key"]) => IsInitialized(ai')
     /\ \A r \in Reqs :
          (/\ req[r].pc = "thumb" /\ req'[r].pc # "thumb"
           /\ ~Falsy(settings["openai_api_key"])) => req'[r].pc = "ai"]_vars

\* C29: the response of GET /api/settings does not depend on the value of a stored
\* provider credential: had a non-empty openai_api_key or gemini_api_key any other
\* non-empty value, the response would be the same, the credential showing as
\* the mask only.
Credentials == {"openai_api_key", "gemini_api_key"}
CredentialValues == {"sk-1", "sk-2", "AIza-1", "AIza-2"}
C29_CredentialsMasked ==
  [][GetSettings =>
       \A c \in Credentials :
         ~Falsy(settings[c]) =>
           /\ res'.body[c] = Mask
           /\ \A v \in CredentialValues :
                SettingsResponse([settings EXCEPT ![c] = v]) = res'.body]_vars

\* C26: when an upload ends with an error status, the listing holds the title,
\* description, category and price it held when the request arrived.
C26_FailedUploadKeepsListing ==
  [][\A r \in Reqs :
       (Finishes(r) /\ req'[r].status >= 400) =>
         items'[req'[r].id] = IF Active(r) THEN req[r].pre ELSE items[req'[r].id]]_vars

\* C27: an upload addressed to a listing that does not exist is answered with
\* 404, and after it its file is gone, no thumbnail and no image row exist for it
\* and it has dispatched no provider call.
C27_UnknownListing ==
  [][\A r \in Reqs :
       /\ (req[r].pc = "verify" /\ ~items[req[r].id].exists /\ GetItem(r, TRUE)) =>
            (req'[r].pc = "done" /\ req'[r].status = 404)
       /\ (req'[r].pc = "done" /\ req'[r].status = 404) =>
            /\ FileOf(r) \notin files'
            /\ FileOf(r) \notin thumbs'
            /\ RowsOf(r)' = {}
            /\ req'[r].calls = 0]_vars

\* C27 witness: an upload was answered with 404 while a provider was configured,
\* and the listing was created afterwards.
C27_Witness ==
  \E r \in Reqs :
    /\ req[r].pc = "done" /\ req[r].status = 404
    /\ IsInitialized(ai)
    /\ items[req[r].id].exists
    /\ FileOf(r) \notin files

\* C28: a call of initialize or setProvider with a missing key or an unsupported
\* provider leaves provider, model and both clients as they are; a call that
\* succeeds sets provider, model and that provider's client and leaves the other
\* client; so isInitialized(), once true, stays true, and it implies a client
\* for the current provider.
Succeeds(provider, apiKey) == provider \in {"openai", "gemini"} /\ apiKey # Undef
DefaultModel(provider) ==
  IF provider = "openai" THEN DefaultOpenAIModel ELSE DefaultGeminiModel
SetTogether(provider, apiKey, model) ==
  /\ ai'.provider = provider
  /\ ai'.model = IF model # Undef THEN model ELSE DefaultModel(provider)
  /\ ai'[provider] = apiKey
  /\ \A other \in {"openai", "gemini"} \ {provider} : ai'[other] = ai[other]
KeyOf(config) ==
  IF config.provider = "openai" THEN config.openAIKey
  ELSE IF config.provider = "gemini" THEN config.geminiKey
  ELSE Undef
C28_InitializeFrame ==
  [][/\ \A config \in InitConfigs :
          InitializeCall(config) =>
            IF Succeeds(config.provider, KeyOf(config))
            THEN SetTogether(config.provider, KeyOf(config), config.model)
            ELSE ai' = ai
     /\ \A a \in ProviderSettings :
          SetProvider(a[1], a[2], a[3]) =>
            IF Succeeds(a[1], a[2]) THEN SetTogether(a[1], a[2], a[3]) ELSE ai' = ai
     /\ IsInitialized(ai) => IsInitialized(ai')
     /\ IsInitialized(ai') => ai'[ai'.provider] # NullClient]_vars

\* C28 witness: both providers were set up, Gemini last and with an explicit
\* model, and a service call has been made since.
C28_Witness ==
  /\ ai.provider = "gemini" /\ ai.model = "gpt-4o-mini"
  /\ ai.gemini # NullClient /\ ai.openai # NullClient
  /\ svcCall.op = "analyzeImage" /\ ~svcCall.raised

\* C30: one session of the create-item page creates at most one listing; every
\* file it uploads goes to that listing and submit navigates to it.
C30_OneListingPerSession ==
  /\ Cardinality(page.listings) <= 1
  /\ \A u \in page.uploaded : u[3] \in page.listings
  /\ page.navigated # 0 => page.listings = {page.navigated}

====
